---- MODULE Spec2Model ----
(***************************************************************************)
(* A model of MusicGen90s.py: the beat-synchronised segment assembly       *)
(* (apply_beat_effects), the gradient generator (generate_ai_visuals),     *)
(* the tag reader (extract_metadata), the rendering pipeline               *)
(* (generate_waveform_video_with_effects) and the Tk form that drives it   *)
(* (select_audio_file, select_output_file, generate_video).                *)
(*                                                                         *)
(* Times are integers: one tick is 0.05 s, so the 0.1 s effect window of   *)
(* apply_beat_effects is 2 ticks and the track of 6.0 s is 120 ticks.      *)
(***************************************************************************)
EXTENDS Integers, Sequences, FiniteSets

VARIABLES
    \* apply_beat_effects
    duration,           \* clip.duration, in ticks
    beat_times,         \* the beat_times argument, ascending, in ticks
    bi,                 \* position of the for loop in beat_times (1-based)
    last_t,             \* the cursor last_t
    clips,              \* the list clips
    bpc,                \* "loop" | "tail" | "concat" | "done"
    video,              \* the list handed to concatenate_videoclips
    \* generate_ai_visuals
    theme,              \* the theme argument <<r, g, b>>
    row,                \* the loop variable i
    image,              \* row -> colour of that row of the image
    vpc,                \* "off" | "loop" | "done"
    \* extract_metadata
    file_kind,          \* what mutagen.File does with the path
    frames,             \* tag key -> "absent" | "ok" | "bad"
    metadata,           \* the dict metadata
    mpc,                \* "off" | "open" | "title" | "artist" | "album" | "done"
    caught,             \* an except clause of extract_metadata ran
    \* the Tk form and the pipeline it starts
    audio_file_entry,   \* text of the input entry widget
    output_file_entry,  \* text of the output entry widget
    handler,            \* the callback that ran last
    audio_path,         \* generate_video's local audio_path
    output_path,        \* generate_video's local output_path
    pc,                 \* "idle" | "pipeline" | "finishing"
    step,               \* the pipeline step about to run
    log,                \* the pipeline steps started by this trigger, in order
    written,            \* the files written by this trigger
    dialogs,            \* the message boxes shown by this trigger
    invocations,        \* calls of the pipeline made by this trigger
    outcome,            \* "none" | "invalid" | "running" | "ok" | "failed"
    failed_step         \* the step whose failure ended the run, else 0

beatVars == <<duration, beat_times, bi, last_t, clips, bpc, video>>
visualVars == <<theme, row, image, vpc>>
metaVars == <<file_kind, frames, metadata, mpc, caught>>
shellVars == <<audio_file_entry, output_file_entry, handler, audio_path,
               output_path, pc, step, log, written, dialogs, invocations,
               outcome, failed_step>>
vars == <<beatVars, visualVars, metaVars, shellVars>>

Min(a, b) == IF a < b THEN a ELSE b

----------------------------------------------------------------------------
(* apply_beat_effects                                                      *)

\* bt + 0.1: the effect window, in ticks of 0.05 s
EffectWindow == 2

\* longest track of the enumerated inputs, in ticks
MaxDuration == 6
\* most beats of an enumerated input
MaxBeats == 3

\* clip.subclip(s, e), with the transform applied to it
Subclip(s, e, fx) == [start |-> s, end |-> e, fx |-> fx]

\* the strictly ascending sequence of the elements of a finite set of integers
RECURSIVE SortedSeq(_)
SortedSeq(S) ==
    IF S = {} THEN <<>>
    ELSE LET m == CHOOSE x \in S : \A y \in S : x <= y
         IN <<m>> \o SortedSeq(S \ {m})

\* the beat timelines of a track of d ticks: ascending timestamps in [0, d)
BeatTimelines(d) ==
    {SortedSeq(S) : S \in {T \in SUBSET (0 .. d - 1) : Cardinality(T) <= MaxBeats}}

\* beats at 2.0 s, 2.05 s and 5.0 s of a track of 6.0 s
ExampleTrack == [duration |-> 120, beats |-> <<40, 41, 100>>]

\* the tracks apply_beat_effects is run on
Tracks ==
    {ExampleTrack} \cup
    UNION {{[duration |-> d, beats |-> bs] : bs \in BeatTimelines(d)} :
              d \in 0 .. MaxDuration}

\* a loop body that skips a beat lying before the cursor
BeatClipsSkipping(cl, lt, bt, d) ==
    IF bt < lt THEN cl
    ELSE (IF bt > lt THEN Append(cl, Subclip(lt, bt, "identity")) ELSE cl)
            \o <<Subclip(bt, Min(bt + EffectWindow, d), "effect")>>

\* a loop body whose test is bt >= last_t
BeatClipsEager(cl, lt, bt, d) ==
    (IF bt >= lt THEN Append(cl, Subclip(lt, bt, "identity")) ELSE cl)
        \o <<Subclip(bt, Min(bt + EffectWindow, d), "effect")>>

\* the list clips after the loop body has run for beat bt with cursor lt
BeatClips(cl, lt, bt, d) ==
    (IF bt > lt THEN Append(cl, Subclip(lt, bt, "identity")) ELSE cl)
        \o <<Subclip(bt, Min(bt + EffectWindow, d), "effect")>>

\* a tail whose test is last_t <= clip.duration
TailClipsEager(cl, lt, d) ==
    IF lt <= d THEN Append(cl, Subclip(lt, d, "identity")) ELSE cl

\* the list clips after the statement that follows the loop
TailClips(cl, lt, d) ==
    IF lt < d THEN Append(cl, Subclip(lt, d, "identity")) ELSE cl

InitBeats ==
    /\ \E t \in Tracks : duration = t.duration /\ beat_times = t.beats
    /\ bi = 1
    /\ last_t = 0
    /\ clips = <<>>
    /\ bpc = "loop"
    /\ video = <<>>

ParkedBeats ==
    /\ duration = 0
    /\ beat_times = <<>>
    /\ bi = 1
    /\ last_t = 0
    /\ clips = <<>>
    /\ bpc = "off"
    /\ video = <<>>

\* one iteration of the for loop
BeatIteration ==
    /\ bpc = "loop"
    /\ bi <= Len(beat_times)
    /\ clips' = BeatClips(clips, last_t, beat_times[bi], duration)
    /\ last_t' = beat_times[bi] + EffectWindow
    /\ bi' = bi + 1
    /\ UNCHANGED <<duration, beat_times, bpc, video>>
    /\ UNCHANGED <<visualVars, metaVars, shellVars>>

\* the loop is exhausted
LoopExit ==
    /\ bpc = "loop"
    /\ bi > Len(beat_times)
    /\ bpc' = "tail"
    /\ UNCHANGED <<duration, beat_times, bi, last_t, clips, video>>
    /\ UNCHANGED <<visualVars, metaVars, shellVars>>

\* if last_t < clip.duration: clips.append(clip.subclip(last_t))
TrailingSegment ==
    /\ bpc = "tail"
    /\ clips' = TailClips(clips, last_t, duration)
    /\ bpc' = "concat"
    /\ UNCHANGED <<duration, beat_times, bi, last_t, video>>
    /\ UNCHANGED <<visualVars, metaVars, shellVars>>

\* return mp.concatenate_videoclips(clips)
Concatenate ==
    /\ bpc = "concat"
    /\ video' = clips
    /\ bpc' = "done"
    /\ UNCHANGED <<duration, beat_times, bi, last_t, clips>>
    /\ UNCHANGED <<visualVars, metaVars, shellVars>>

NextBeats == BeatIteration \/ LoopExit \/ TrailingSegment \/ Concatenate

----------------------------------------------------------------------------
(* generate_ai_visuals                                                     *)

\* width, height = 1920, 1080: the rows of the image; a line spans its row
height == 1080

\* the default theme of generate_waveform_video_with_effects
DefaultTheme == <<0, 0, 255>>

\* the theme colours the generator is run on
ThemeChannels == <<{0, 45, 75}, {90, 128}, {1, 255}>>
Themes ==
    {DefaultTheme} \cup
    {<<r, g, b>> : r \in ThemeChannels[1], g \in ThemeChannels[2],
                   b \in ThemeChannels[3]}

RECURSIVE Pow2(_)
Pow2(n) == IF n = 0 THEN 1 ELSE 2 * Pow2(n - 1)

\* 2^e mod m
RECURSIVE Pow2Mod(_, _)
Pow2Mod(e, m) == IF e = 0 THEN 1 % m ELSE (2 * Pow2Mod(e - 1, m)) % m

\* the least b with x * 2^b >= y, for x >= 1
RECURSIVE ShiftsToReach(_, _)
ShiftsToReach(x, y) == IF x >= y THEN 0 ELSE 1 + ShiftsToReach(2 * x, y)

\* the a with 2^a <= n < 2^(a+1), for n >= 1
RECURSIVE FloorLog2(_)
FloorLog2(n) == IF n < 2 THEN 0 ELSE 1 + FloorLog2(n \div 2)

\* the channel rounded to the nearest integer
GradientChannelRounded(c, i) == (2 * c * i + height) \div (2 * height)

(***************************************************************************)
(* int(c * (i / height)) as Python computes it: i / height is the double   *)
(* nearest to the quotient, the product is the double nearest to c times   *)
(* that double, and int() truncates.  A double has a significand of 53     *)
(* bits.  Where c*i is no multiple of height the product is further than   *)
(* 1/height from an integer and the rounding errors cannot reach it, so    *)
(* the result is the floor.  Where c*i/height is the integer n, with the   *)
(* quotient in [2^-b, 2^(1-b)) and r the remainder of i * 2^(52+b) by      *)
(* height: the stored quotient is exact (r = 0) or too large (2r > height, *)
(* or a tie rounded up to an even significand) and the product is at least *)
(* n; or the stored quotient is too small by r / (height * 2^(52+b)), the  *)
(* exact product lies c * r / (height * 2^(52+b)) below n, and it rounds   *)
(* back up to n exactly when that distance is at most half the spacing of  *)
(* the doubles below n (2^(a-52) for n > 2^a, 2^(a-53) for n = 2^a; a tie  *)
(* goes to n, whose significand is even); otherwise int() gives n - 1.     *)
(***************************************************************************)
GradientChannel(c, i) ==
    LET p == c * i
        n == p \div height
    IN  IF p % height # 0 \/ n = 0 THEN n
        ELSE
            LET b == ShiftsToReach(i, height)
                a == FloorLog2(n)
                r == (i * Pow2Mod(52 + b, height)) % height
                floorOdd ==
                    ((i * Pow2Mod(52 + b, 2 * height)) % (2 * height)) \div height = 1
                quotientLow == r # 0 /\ (2 * r < height \/ (2 * r = height /\ ~floorOdd))
                halfSpacing ==
                    IF n > Pow2(a) THEN height * Pow2(a + b + 1)
                                   ELSE height * Pow2(a + b)
            IN  IF quotientLow /\ 4 * c * r > halfSpacing THEN n - 1 ELSE n

\* the colour of row i
GradientColor(th, i) ==
    <<GradientChannel(th[1], i), GradientChannel(th[2], i), GradientChannel(th[3], i)>>

InitVisual ==
    /\ theme \in Themes
    /\ row = 0
    /\ image = [i \in 0 .. height - 1 |-> theme]
    /\ vpc = "loop"

ParkedVisual ==
    /\ theme = DefaultTheme
    /\ row = 0
    /\ image = <<>>
    /\ vpc = "off"

\* one iteration of the loop: the line over row i is drawn in the row's colour
DrawLine ==
    /\ vpc = "loop"
    /\ row < height
    /\ image' = [image EXCEPT ![row] = GradientColor(theme, row)]
    /\ row' = row + 1
    /\ UNCHANGED <<theme, vpc>>
    /\ UNCHANGED <<beatVars, metaVars, shellVars>>

\* return image
ReturnImage ==
    /\ vpc = "loop"
    /\ row = height
    /\ vpc' = "done"
    /\ UNCHANGED <<theme, row, image>>
    /\ UNCHANGED <<beatVars, metaVars, shellVars>>

NextVisual == DrawLine \/ ReturnImage

----------------------------------------------------------------------------
(* extract_metadata                                                        *)

\* metadata = {"title": "Unknown Title", "artist": ..., "album": ...}
DefaultMetadata ==
    [title |-> "Unknown Title", artist |-> "Unknown Artist", album |-> "Unknown Album"]

TagKeys == {"TIT2", "TPE1", "TALB"}

\* .text[0] of a readable frame
TagText == [TIT2 |-> "Song", TPE1 |-> "Band", TALB |-> "Record"]

(***************************************************************************)
(* What File(audio_path) and audio.tags give:                              *)
(*   "unreadable"  File raises (no such file, no ID3 header, ...)          *)
(*   "unknown"     File returns None                                       *)
(*   "untagged"    audio.tags is None or empty                             *)
(*   "tagged"      audio.tags holds frames                                 *)
(* and a frame is "absent" (the key is not in tags), "ok" (.text[0] is a   *)
(* string) or "bad" (present, and reading .text[0] raises).                *)
(***************************************************************************)
FileKinds == {"unreadable", "unknown", "untagged", "tagged"}
FrameStates == {"absent", "ok", "bad"}

AudioFiles ==
    {[kind |-> k, frames |-> f] : k \in FileKinds, f \in [TagKeys -> FrameStates]}

\* the files a path can name: only a file with a tag container has frames
PossibleFiles ==
    {a \in AudioFiles :
        a.kind \in {"unknown", "untagged"} => \A k \in TagKeys : a.frames[k] = "absent"}

\* metadata[field] = tags.get(key, metadata[field]).text[0] if key in tags
\*                   else metadata[field]
ReadField(md, field, key, fs) ==
    IF fs[key] = "ok" THEN [md EXCEPT ![field] = TagText[key]] ELSE md

InitMeta ==
    /\ \E a \in PossibleFiles : file_kind = a.kind /\ frames = a.frames
    /\ metadata = DefaultMetadata
    /\ mpc = "open"
    /\ caught = FALSE

ParkedMeta ==
    /\ file_kind = "unknown"
    /\ frames = [k \in TagKeys |-> "absent"]
    /\ metadata = DefaultMetadata
    /\ mpc = "off"
    /\ caught = FALSE

\* audio = File(audio_path); if audio is None: return metadata;
\* tags = audio.tags; if tags:
OpenFile ==
    /\ mpc = "open"
    /\ \/ /\ file_kind = "unreadable"
          /\ caught' = TRUE
          /\ mpc' = "done"
       \/ /\ file_kind \in {"unknown", "untagged"}
          /\ mpc' = "done"
          /\ UNCHANGED caught
       \/ /\ file_kind = "tagged"
          /\ mpc' = "title"
          /\ UNCHANGED caught
    /\ UNCHANGED <<file_kind, frames, metadata>>
    /\ UNCHANGED <<beatVars, visualVars, shellVars>>

\* one of the three assignments; a read that raises ends in the except
\* clause, which passes, and the function returns metadata as it stands
ReadTag(field, key, next) ==
    /\ IF frames[key] = "bad"
       THEN /\ caught' = TRUE
            /\ mpc' = "done"
            /\ UNCHANGED metadata
       ELSE /\ metadata' = ReadField(metadata, field, key, frames)
            /\ mpc' = next
            /\ UNCHANGED caught
    /\ UNCHANGED <<file_kind, frames>>
    /\ UNCHANGED <<beatVars, visualVars, shellVars>>

\* metadata['title'] = ...
ReadTitle ==
    /\ mpc = "title"
    /\ ReadTag("title", "TIT2", "artist")

\* metadata['artist'] = ...
ReadArtist ==
    /\ mpc = "artist"
    /\ ReadTag("artist", "TPE1", "album")

\* metadata['album'] = ...
ReadAlbum ==
    /\ mpc = "album"
    /\ ReadTag("album", "TALB", "done")

NextMeta == OpenFile \/ ReadTitle \/ ReadArtist \/ ReadAlbum

----------------------------------------------------------------------------
(* the Tk form and generate_waveform_video_with_effects                    *)

\* the audio files on disk, and the paths a user can put in the entries
ExistingAudio == {"song.mp3"}
AudioPaths == ExistingAudio \cup {"missing.mp3"}
OutputPaths == {"out.mp4", "clip.mp4"}

ErrorDialog == <<"showerror", "Please select both audio file and output file.">>
SuccessDialog(path) == <<"showinfo", path>>

\* the statements of generate_waveform_video_with_effects, in program order
PipelineSteps ==
    <<"decode", "beats", "waveform", "background", "segments", "metadata", "encode">>

\* the file a step writes
StepWrites(s, out) ==
    CASE s = 3 -> {"waveform.png"}
      [] s = 4 -> {"ai_visuals.png"}
      [] s = 7 -> {out}
      [] OTHER -> {}

\* librosa.load raises for a path that names no file
MustFail(s, path) == s = 1 /\ path \notin ExistingAudio

\* a test that rejects only when both fields are empty
PathsMissingBoth(a, o) == a = "" /\ o = ""

\* if not audio_path or not output_path
PathsMissing(a, o) == a = "" \/ o = ""

InitShell ==
    /\ audio_file_entry = ""
    /\ output_file_entry = ""
    /\ handler = "none"
    /\ audio_path = ""
    /\ output_path = ""
    /\ pc = "idle"
    /\ step = 0
    /\ log = <<>>
    /\ written = {}
    /\ dialogs = <<>>
    /\ invocations = 0
    /\ outcome = "none"
    /\ failed_step = 0

ParkedShell == InitShell

runVars == <<audio_path, output_path, pc, step, log, written, dialogs,
             invocations, outcome, failed_step>>

\* the user types in an entry widget
EditEntries ==
    /\ pc = "idle"
    /\ \/ /\ audio_file_entry' \in AudioPaths \cup {""}
          /\ UNCHANGED output_file_entry
       \/ /\ output_file_entry' \in OutputPaths \cup {""}
          /\ UNCHANGED audio_file_entry
    /\ handler' = "edit"
    /\ UNCHANGED runVars
    /\ UNCHANGED <<beatVars, visualVars, metaVars>>

\* select_audio_file: the dialog gives a file, or "" when cancelled
SelectAudioFile ==
    /\ pc = "idle"
    /\ \E file_path \in ExistingAudio \cup {""} :
          audio_file_entry' = IF file_path # "" THEN file_path ELSE audio_file_entry
    /\ handler' = "select_audio_file"
    /\ UNCHANGED <<output_file_entry, runVars>>
    /\ UNCHANGED <<beatVars, visualVars, metaVars>>

\* select_output_file
SelectOutputFile ==
    /\ pc = "idle"
    /\ \E file_path \in OutputPaths \cup {""} :
          output_file_entry' = IF file_path # "" THEN file_path ELSE output_file_entry
    /\ handler' = "select_output_file"
    /\ UNCHANGED <<audio_file_entry, runVars>>
    /\ UNCHANGED <<beatVars, visualVars, metaVars>>

\* generate_video up to its return or its call of the pipeline
GenerateVideo ==
    /\ pc = "idle"
    /\ handler' = "generate_video"
    /\ audio_path' = audio_file_entry
    /\ output_path' = output_file_entry
    /\ log' = <<>>
    /\ written' = {}
    /\ failed_step' = 0
    /\ IF PathsMissing(audio_file_entry, output_file_entry)
       THEN /\ dialogs' = <<ErrorDialog>>
            /\ invocations' = 0
            /\ outcome' = "invalid"
            /\ step' = 0
            /\ pc' = "idle"
       ELSE /\ dialogs' = <<>>
            /\ invocations' = 1
            /\ outcome' = "running"
            /\ step' = 1
            /\ pc' = "pipeline"
    /\ UNCHANGED <<audio_file_entry, output_file_entry>>
    /\ UNCHANGED <<beatVars, visualVars, metaVars>>

\* a step of the pipeline completes
PipelineStep ==
    /\ pc = "pipeline"
    /\ ~MustFail(step, audio_path)
    /\ log' = Append(log, PipelineSteps[step])
    /\ written' = written \cup StepWrites(step, output_path)
    /\ IF step = Len(PipelineSteps)
       THEN pc' = "finishing" /\ UNCHANGED step
       ELSE step' = step + 1 /\ UNCHANGED pc
    /\ UNCHANGED <<audio_file_entry, output_file_entry, handler, audio_path,
                   output_path, dialogs, invocations, outcome, failed_step>>
    /\ UNCHANGED <<beatVars, visualVars, metaVars>>

\* a failing step wrapped in a handler that reports the error in a dialog
PipelineFailureReported ==
    /\ pc = "pipeline"
    /\ log' = Append(log, PipelineSteps[step])
    /\ written' \in {written, written \cup StepWrites(step, output_path)}
    /\ failed_step' = step
    /\ outcome' = "failed"
    /\ dialogs' = Append(dialogs, <<"showerror", "Generation failed.">>)
    /\ pc' = "idle"
    /\ UNCHANGED <<audio_file_entry, output_file_entry, handler, audio_path,
                   output_path, step, invocations>>
    /\ UNCHANGED <<beatVars, visualVars, metaVars>>

\* a failing step whose error is swallowed: the run goes on with the next step
PipelineFailureIgnored ==
    /\ pc = "pipeline"
    /\ log' = Append(log, PipelineSteps[step])
    /\ written' \in {written, written \cup StepWrites(step, output_path)}
    /\ failed_step' = step
    /\ outcome' = "failed"
    /\ IF step = Len(PipelineSteps)
       THEN pc' = "idle" /\ UNCHANGED step
       ELSE step' = step + 1 /\ UNCHANGED pc
    /\ UNCHANGED <<audio_file_entry, output_file_entry, handler, audio_path,
                   output_path, dialogs, invocations>>
    /\ UNCHANGED <<beatVars, visualVars, metaVars>>

\* a step of the pipeline raises: nothing in the pipeline or in generate_video
\* catches, so the exception leaves the handler; a step that writes a file may
\* have created it before it failed
PipelineFailure ==
    /\ pc = "pipeline"
    /\ log' = Append(log, PipelineSteps[step])
    /\ written' \in {written, written \cup StepWrites(step, output_path)}
    /\ failed_step' = step
    /\ outcome' = "failed"
    /\ pc' = "idle"
    /\ UNCHANGED <<audio_file_entry, output_file_entry, handler, audio_path,
                   output_path, step, dialogs, invocations>>
    /\ UNCHANGED <<beatVars, visualVars, metaVars>>

\* messagebox.showinfo("Success", f"Video saved to {output_path}")
ShowSuccess ==
    /\ pc = "finishing"
    /\ dialogs' = Append(dialogs, SuccessDialog(output_path))
    /\ outcome' = "ok"
    /\ pc' = "idle"
    /\ UNCHANGED <<audio_file_entry, output_file_entry, handler, audio_path,
                   output_path, step, log, written, invocations, failed_step>>
    /\ UNCHANGED <<beatVars, visualVars, metaVars>>

NextShell ==
    \/ EditEntries
    \/ SelectAudioFile
    \/ SelectOutputFile
    \/ GenerateVideo
    \/ PipelineStep
    \/ PipelineFailure
    \/ ShowSuccess

----------------------------------------------------------------------------
(* specifications: one per function under study, the others at rest        *)

StartBeats == InitBeats /\ ParkedVisual /\ ParkedMeta /\ ParkedShell
SpecBeats == StartBeats /\ [][NextBeats]_vars

StartVisual == ParkedBeats /\ InitVisual /\ ParkedMeta /\ ParkedShell
SpecVisual == StartVisual /\ [][NextVisual]_vars

StartMeta == ParkedBeats /\ ParkedVisual /\ InitMeta /\ ParkedShell
SpecMeta == StartMeta /\ [][NextMeta]_vars

StartShell == ParkedBeats /\ ParkedVisual /\ ParkedMeta /\ InitShell
SpecShell == StartShell /\ [][NextShell]_vars

----------------------------------------------------------------------------
(* properties of apply_beat_effects, under SpecBeats                       *)

\* the brighten+crop segment of a beat at t
EffectSegment(t) == Subclip(t, Min(t + EffectWindow, duration), "effect")

\* the positions of the effect segments in the list handed to concatenation
EffectPositions == {k \in 1 .. Len(video) : video[k].fx = "effect"}

RECURSIVE TotalLength(_)
TotalLength(segs) ==
    IF segs = <<>> THEN 0
    ELSE (Head(segs).end - Head(segs).start) + TotalLength(Tail(segs))

\* beat j lies strictly inside the window of an earlier beat that itself lies
\* in no earlier window
InsideEarlierWindow(j) ==
    \E k \in 1 .. j - 1 :
        /\ beat_times[k] < beat_times[j]
        /\ beat_times[j] < beat_times[k] + EffectWindow
        /\ \A h \in 1 .. k - 1 : beat_times[h] + EffectWindow <= beat_times[k]

\* C1: for a track of duration D > 0 the segments are contiguous and
\* non-overlapping and cover exactly [0, D): the first starts at 0, each later
\* one starts where the previous one ended, the last ends at D, and the
\* lengths sum to D.
C1_ContiguousCover ==
    (bpc = "done" /\ duration > 0) =>
        /\ Len(video) > 0
        /\ video[1].start = 0
        /\ \A k \in 2 .. Len(video) : video[k].start = video[k - 1].end
        /\ video[Len(video)].end = duration
        /\ TotalLength(video) = duration

\* C2: a beat strictly inside the effect window opened by an earlier beat is
\* dropped and contributes no segment of its own, so the beats 2.0, 2.05, 5.0
\* of a track of 6.0 s yield exactly the effect segments [2.0, 2.1) and
\* [5.0, 5.1).
C2_BeatInWindowDropped ==
    bpc = "done" =>
        /\ \A j \in 1 .. Len(beat_times) :
              InsideEarlierWindow(j) =>
                  \A k \in EffectPositions : video[k].start # beat_times[j]
        /\ (duration = ExampleTrack.duration /\ beat_times = ExampleTrack.beats) =>
              {video[k] : k \in EffectPositions} =
                  {Subclip(40, 42, "effect"), Subclip(100, 102, "effect")}

\* C7: every beat t is used: the output holds the effect segment
\* [t, min(t + 0.1, D)) of each beat t, the window clamped to the track end,
\* and every other segment is an identity segment.
C7_EveryBeatUsed ==
    bpc = "done" =>
        /\ \A j \in 1 .. Len(beat_times) :
              \E k \in 1 .. Len(video) : video[k] = EffectSegment(beat_times[j])
        /\ \A k \in 1 .. Len(video) :
              \/ video[k].fx = "identity"
              \/ \E j \in 1 .. Len(beat_times) : video[k] = EffectSegment(beat_times[j])
        /\ Cardinality(EffectPositions) = Len(beat_times)

\* a finished run with a beat inside the previous beat's window and a window
\* clamped to the track end
C7_Witness ==
    /\ bpc = "done"
    /\ \E j \in 2 .. Len(beat_times) : beat_times[j] < beat_times[j - 1] + EffectWindow
    /\ \E k \in EffectPositions :
          video[k].end = duration /\ video[k].start + EffectWindow > duration

\* C9: with an empty BeatTimeline and D > 0 the output is exactly the one
\* identity segment [0, D); with an empty BeatTimeline and D = 0 the list
\* handed to concatenation is empty.
C9_EmptyTimeline ==
    (bpc = "done" /\ beat_times = <<>>) =>
        IF duration > 0
        THEN video = <<Subclip(0, duration, "identity")>>
        ELSE video = <<>>

\* a finished run on a track of positive duration with no beat
C9_Witness ==
    /\ bpc = "done"
    /\ beat_times = <<>>
    /\ duration > 0
    /\ Len(video) = 1

\* C10: for D > 0 every emitted segment has start < end, and the segment
\* start times are non-decreasing in output order.
C10_NonEmptyOrdered ==
    (bpc = "done" /\ duration > 0) =>
        /\ \A k \in 1 .. Len(video) : video[k].start < video[k].end
        /\ \A k \in 2 .. Len(video) : video[k - 1].start <= video[k].start

\* a finished run with a beat at the cursor at time 0, a beat exactly at the
\* end of the previous window, and the cursor ending exactly at D
C10_Witness ==
    /\ bpc = "done"
    /\ duration > 0
    /\ Len(beat_times) >= 2
    /\ beat_times[1] = 0
    /\ \E j \in 2 .. Len(beat_times) : beat_times[j] = beat_times[j - 1] + EffectWindow
    /\ last_t = duration
    /\ Len(video) = Len(beat_times)

----------------------------------------------------------------------------
(* properties of generate_ai_visuals, under SpecVisual                     *)

\* C5 as stated: each channel of a drawn row i is the theme channel times i/H rounded
\* to the nearest integer (either neighbour on a tie), and row 0 is black.
C5_RoundedToNearest ==
    vpc \in {"loop", "done"} =>
        /\ row > 0 => image[0] = <<0, 0, 0>>
        /\ \A i \in 0 .. row - 1 : \A k \in 1 .. 3 :
              /\ 2 * height * image[i][k] <= 2 * theme[k] * i + height
              /\ 2 * height * image[i][k] >= 2 * theme[k] * i - height

\* C5, amended: each channel of a drawn row i is the theme channel times i/H
\* truncated, never rounded up: it is the floor of the exact value, except
\* that where the exact value is a whole number n it is n or n - 1; row 0 is
\* black.
C5_Truncated ==
    vpc \in {"loop", "done"} =>
        /\ row > 0 => image[0] = <<0, 0, 0>>
        /\ \A i \in 0 .. row - 1 : \A k \in 1 .. 3 :
              LET p == theme[k] * i
                  v == image[i][k]
              IN  /\ v >= 0
                  /\ v * height <= p
                  /\ p <= (v + 1) * height
                  /\ p % height # 0 => p < (v + 1) * height

\* a finished image with a channel truncated where rounding would go up
\* (255 * 1079/1080 = 254.76) and one below the whole number it would have
\* in exact arithmetic (45 * 312/1080 = 13)
C5_Witness ==
    /\ vpc = "done"
    /\ theme[1] = 45
    /\ theme[3] = 255
    /\ image[312][1] = 12
    /\ image[height - 1][3] = 254

----------------------------------------------------------------------------
(* properties of extract_metadata, under SpecMeta                          *)

\* C4: when the file cannot be opened, has no tag container, or a read of a
\* tag raises, the returned Metadata is exactly the three defaults, also when
\* an earlier field had been read before the error.
C4_AllDefaultsOnError ==
    mpc = "done" =>
        ((file_kind # "tagged" \/ caught) => metadata = DefaultMetadata)

----------------------------------------------------------------------------
(* properties of the form and the pipeline, under SpecShell                *)

\* C3: generate_video with an empty input or output path shows the
\* validation error, never invokes the pipeline, shows no success dialog and
\* leaves both fields as they were.
C3_MissingPathRejected ==
    (handler = "generate_video" /\ (audio_path = "" \/ output_path = "")) =>
        /\ pc = "idle"
        /\ dialogs = <<ErrorDialog>>
        /\ invocations = 0
        /\ log = <<>>
        /\ written = {}
        /\ audio_file_entry = audio_path
        /\ output_file_entry = output_path

\* the handler has returned with the input path set and the output path empty
C3_Witness ==
    /\ handler = "generate_video"
    /\ audio_path # ""
    /\ output_path = ""
    /\ outcome = "invalid"
    /\ dialogs = <<ErrorDialog>>

\* C6: with both paths set the pipeline is invoked exactly once; the success
\* dialog naming the output path is shown only after the pipeline has
\* completed without failure; a failure leaves the handler with no dialog
\* shown and no second attempt.
C6_OnceThenSuccess ==
    (handler = "generate_video" /\ audio_path # "" /\ output_path # "") =>
        /\ invocations = 1
        /\ Len(dialogs) <= 1
        /\ \A k \in 1 .. Len(dialogs) : dialogs[k] = SuccessDialog(output_path)
        /\ dialogs # <<>> =>
              (outcome = "ok" /\ log = PipelineSteps /\ failed_step = 0)
        /\ outcome = "ok" => (dialogs = <<SuccessDialog(output_path)>> /\ pc = "idle")
        /\ outcome = "failed" => (dialogs = <<>> /\ pc = "idle")
        /\ pc = "idle" => outcome \in {"ok", "failed"}

\* the handler has returned after a complete run and shown the success dialog
C6_Witness ==
    /\ handler = "generate_video"
    /\ pc = "idle"
    /\ outcome = "ok"
    /\ log = PipelineSteps
    /\ dialogs = <<SuccessDialog(output_path)>>
    /\ output_path \in written

\* the files of the steps that have been started
FilesOfStarted == UNION {StepWrites(k, output_path) : k \in 1 .. Len(log)}

\* C8: the steps run once each in the order decode, beat analysis, waveform
\* image write, background image write, segment assembly, metadata read,
\* encode; a failure ends the run at the failing step and reaches the caller;
\* a decode failure, which a nonexistent input path causes, leaves no
\* intermediate image file and no output video written.
C8_OrderedAbort ==
    /\ Len(log) <= 7
    /\ \A k \in 1 .. Len(log) :
          log[k] = <<"decode", "beats", "waveform", "background", "segments",
                     "metadata", "encode">>[k]
    /\ written \subseteq FilesOfStarted
    /\ outcome = "ok" => Len(log) = 7
    /\ outcome = "failed" =>
          (failed_step >= 1 /\ Len(log) = failed_step /\ pc = "idle")
    /\ (outcome = "failed" /\ failed_step = 1) => written = {}
    /\ (invocations = 1 /\ pc = "idle" /\ audio_path \notin ExistingAudio) =>
          (outcome = "failed" /\ failed_step = 1 /\ log = <<"decode">> /\ written = {})

\* a run on a nonexistent input path has failed in the decode step
C8_Witness ==
    /\ invocations = 1
    /\ audio_path = "missing.mp3"
    /\ outcome = "failed"
    /\ failed_step = 1
    /\ log = <<"decode">>
    /\ pc = "idle"

====
